---- MODULE Spec2Model ----
(***************************************************************************)
(* Model of pipeliner/pipeliner.py: the Pipeline resource store, provider  *)
(* index and step registry, and the Step execution engine running as       *)
(* cooperatively scheduled asyncio tasks.                                  *)
(*                                                                         *)
(* One action is one run of a task (or of a synchronous Pipeline method)   *)
(* from one suspension point to the next.  The suspension points are: a    *)
(* task that was created but has not started, `await asyncio.gather(...)`, *)
(* `await self._store[r]` on a future that is not done, and                *)
(* `await self.func(...)` for a work function that awaits.                 *)
(***************************************************************************)
EXTENDS Integers, Sequences, FiniteSets, TLC

\* ------------------------------------------------------------------ bounds
MaxRoots  == 2      \* top-level calls made by the environment
MaxTasks  == 4      \* asyncio tasks alive or finished
MaxClears == 1      \* calls of Pipeline.clear()
MaxDivisor == 3     \* divisors tried in the division example

\* --------------------------------------------------------------- constants
ENV        == "!environment!"     \* _ENV
NoProvider == ""                  \* the name is not a key of _provider
NoVal      == 0 - 1               \* no value (future not done / nothing read)

Names  == {"a", "b", "c", "x", "base", "divisor", "result", "modulus"}
Choices == {1, 2, 3}              \* what a work function does when it returns

\* A step definition: the decorated function (its __name__, its signature,
\* whether its body awaits) and the `provides` of the decorator.
Par(n)  == [name |-> n, variadic |-> FALSE]
VPar(n) == [name |-> n, variadic |-> TRUE]

StepDefs ==
  << [fname |-> "mk_a",  params |-> << >>,
      provides |-> <<"a">>,      body |-> "val",  awaits |-> TRUE],
     [fname |-> "mk_bc", params |-> <<Par("a")>>,
      provides |-> <<"b", "c">>, body |-> "pair", awaits |-> TRUE],
     [fname |-> "alt",   params |-> << >>,
      provides |-> <<"c", "a">>, body |-> "pair", awaits |-> FALSE],
     [fname |-> "base_provider", params |-> << >>,
      provides |-> <<"base">>,   body |-> "const23", awaits |-> FALSE],
     [fname |-> "divide", params |-> <<Par("base"), Par("divisor")>>,
      provides |-> <<"result", "modulus">>, body |-> "divmod", awaits |-> FALSE],
     [fname |-> "get_division",
      params |-> <<Par("base"), Par("result"), Par("modulus")>>,
      provides |-> << >>,        body |-> "triple", awaits |-> FALSE] >>

DefIds      == 1..Len(StepDefs)
AbstractIds == {1, 2, 3}
DivisionIds == {4, 5, 6}
FNames      == {StepDefs[i].fname : i \in DefIds}

ParamNames(d) == [i \in 1..Len(d.params) |-> d.params[i].name]

VARIABLES
  store,      \* Pipeline._store : name -> future
  steps,      \* Pipeline._steps : fname -> Step (a definition id, 0 = no key)
  provider,   \* Pipeline._provider : name -> fname | _ENV
  tasks,      \* the asyncio tasks (coroutine frames), by task id
  epoch,      \* number of clear() calls: futures of an older store are lost
  calls,      \* call counter of every work function
  last        \* exception of the last top-level add_resources call ("" = none)

vars == <<store, steps, provider, tasks, epoch, calls, last>>

\* ------------------------------------------------------------ the futures
Absent  == [state |-> "absent",  val |-> NoVal]
Pending == [state |-> "pending", val |-> NoVal]
Done(v) == [state |-> "done",    val |-> v]

\* defaultdict(asyncio.Future): reading a missing key inserts a new future
Touch(st, ns) ==
  [n \in Names |-> IF n \in ns /\ st[n].state = "absent" THEN Pending ELSE st[n]]

\* Pipeline.resource_ready
resource_ready(st, n) == st[n].state = "done"

\* least index among hits (a subset of 1..n), or n+1: where a loop over
\* 1..n stops
FirstIdx(n, hits) ==
  IF hits = {} THEN n + 1 ELSE CHOOSE i \in hits : \A j \in hits : i <= j

RECURSIVE SetToSeq(_)
SetToSeq(S) ==
  IF S = {} THEN << >>
  ELSE LET e == CHOOSE e \in S : TRUE IN <<e>> \o SetToSeq(S \ {e})

\* ------------------------------------------------- registry and provider
\* Pipeline.step.decorator: the state [steps, provider] after registering
\* definition id
RebindDecorator(reg, id) ==
  LET d == StepDefs[id]
      outs == {d.provides[i] : i \in 1..Len(d.provides)}
  IN [steps    |-> [reg.steps EXCEPT ![d.fname] = id],
      provider |-> [n \in Names |-> IF n \in outs THEN d.fname
                                    ELSE reg.provider[n]]]

decorator(reg, id) ==
  LET d == StepDefs[id]
      outs == {d.provides[i] : i \in 1..Len(d.provides)}
  IN [steps    |-> [reg.steps EXCEPT ![d.fname] = id],
      provider |-> [n \in Names |->
                      IF n \in outs /\ reg.provider[n] = NoProvider
                      THEN d.fname ELSE reg.provider[n]]]

\* Pipeline.add_resources(**kv) with kv a sequence of <<name, value>> in
\* keyword order: set_result raises InvalidStateError on the first future
\* that is already done; the names before it stay set.
OverwriteAddResources(st, pr, kv) ==
  LET keys == {kv[i][1] : i \in 1..Len(kv)}
      V(n) == kv[CHOOSE i \in 1..Len(kv) : kv[i][1] = n][2]
  IN [provider |-> [n \in Names |-> IF n \in keys THEN ENV ELSE pr[n]],
      store    |-> [n \in Names |-> IF n \in keys THEN Done(V(n)) ELSE st[n]],
      err      |-> ""]

add_resources(st, pr, kv) ==
  LET j == FirstIdx(Len(kv), {i \in 1..Len(kv) : st[kv[i][1]].state = "done"})
      set == {kv[i][1] : i \in 1..(j - 1)}
      V(n) == kv[CHOOSE i \in 1..Len(kv) : kv[i][1] = n][2]
  IN [provider |-> [n \in Names |-> IF n \in set THEN ENV ELSE pr[n]],
      store    |-> [n \in Names |-> IF n \in set THEN Done(V(n)) ELSE st[n]],
      err      |-> IF j <= Len(kv) THEN "InvalidStateError" ELSE ""]

\* ------------------------------------------------------ work functions
NoRes == [tag |-> "none", vs |-> << >>]
Scalar(v) == [tag |-> "scalar", vs |-> <<v>>]
Tuple(vs) == [tag |-> "seq", vs |-> vs]
Raise == [tag |-> "raise", vs |-> << >>]

\* what the decorated function returns for the keyword arguments w; ch is
\* the environment's choice for the abstract steps
Body(d, w, ch) ==
  CASE d.body = "const23" -> Scalar(23)
    [] d.body = "divmod"  -> Tuple(<<w["base"] \div w["divisor"],
                                     w["base"] % w["divisor"]>>)
    [] d.body = "triple"  -> Tuple(<<w["base"], w["result"], w["modulus"]>>)
    [] d.body = "val"     -> IF ch = 1 THEN Scalar(2) ELSE Raise
    [] d.body = "pair"    -> IF ch = 1 THEN Tuple(<<1, 2>>)
                             ELSE IF ch = 2 THEN Tuple(<<1>>)
                             ELSE Tuple(<<1, 2, 1>>)

\* Step._fmt_args followed by the call func(*a, **k): a positional value
\* collected for a *args parameter lands on the first positional parameter,
\* which fails when that parameter is also passed by keyword
fmt_args(d) ==
  [a |-> {i \in 1..Len(d.params) : d.params[i].variadic},
   k |-> {i \in 1..Len(d.params) : ~d.params[i].variadic}]

BindError(d) ==
  LET f == fmt_args(d)
  IN \E i \in f.a : \E j \in f.k : j < i

\* Step._fmt_results up to the add_resources call: the sequence of
\* <<name, value>> to publish, or the error raised
NoArityCheck(d, res) ==
  LET n == Len(d.provides)
      r == IF n = 1 THEN Tuple(<<res.vs[1]>>) ELSE res
      m == IF Len(r.vs) < n THEN Len(r.vs) ELSE n
  IN [err |-> "", kv |-> [i \in 1..m |-> <<d.provides[i], r.vs[i]>>]]

fmt_results(d, res) ==
  LET n == Len(d.provides)
      r == IF n = 1 THEN Tuple(<<res.vs[1]>>) ELSE res
  IN IF n = 0 THEN [err |-> "", kv |-> << >>]
     ELSE IF r.tag = "scalar" THEN [err |-> "TypeError", kv |-> << >>]
     ELSE IF Len(r.vs) # n THEN [err |-> "PipelineError", kv |-> << >>]
     ELSE [err |-> "", kv |-> [i \in 1..n |-> <<d.provides[i], r.vs[i]>>]]

\* ------------------------------------------------------------- the tasks
EmptyWants == [n \in Names |-> NoVal]

\* a task: a top-level call of the environment (parent = 0) or a coroutine
\* self._steps[r]() wrapped by asyncio.gather (parent = the awaiting task)
NewTask(kind, id, names, kw, parent, pre, ep0) ==
  [err |-> "",           \* exception the task ended with
   res |-> NoRes,        \* what the work function returned / the return value
   kind |-> kind,        \* "step": Step.__call__, "rfr": run_for_resources,
                         \* "res": Pipeline.resource
   names |-> names,      \* the names run_for_resources is asked for
   kw |-> kw,            \* **resources of Step.__call__
   parent |-> parent,
   pre |-> pre,          \* values the store held when the top-level call was made
   ep0 |-> ep0,          \* the store (epoch) the top-level call was made in
   def |-> id,           \* the Step object called (0 for "rfr" and "res")
   pc |-> "start",       \* start, gather, read, func, done, failed
   idx |-> 0,            \* position of the store read the task is suspended in
   wep |-> 0,            \* the store (epoch) that future belongs to
   gerr |-> "",          \* the exception the gather future was given first
   wants |-> EmptyWants, \* values read from the store so far
   args |-> EmptyWants,  \* arguments the work function was called with
   invoked |-> FALSE]    \* the work function was called

Ids(T) == 1..Len(T)
Children(T, t) == {c \in Ids(T) : T[c].parent = t}
Finished(tk) == tk.pc \in {"done", "failed"}

\* The engine works on a context: tasks T, store S, provider P, calls C.
Ctx(T, S, P, C) == [P |-> P, S |-> S, T |-> T, C |-> C]

\* the task ends with an exception; the done-callback of gather hands the
\* first exception of its children to the awaiting parent
FailNoUnwind(ctx, t, e) ==
  [ctx EXCEPT !.T = [ctx.T EXCEPT ![t].pc = "failed", ![t].err = e,
                                  ![t].idx = 0, ![t].wep = 0]]

Fail(ctx, t, e) ==
  LET p  == ctx.T[t].parent
      T1 == [ctx.T EXCEPT ![t].pc = "failed", ![t].err = e,
                          ![t].idx = 0, ![t].wep = 0]
      T2 == IF p # 0 /\ T1[p].gerr = "" THEN [T1 EXCEPT ![p].gerr = e] ELSE T1
  IN [ctx EXCEPT !.T = T2]

Return(ctx, t, res) ==
  [ctx EXCEPT !.T = [ctx.T EXCEPT ![t].pc = "done", ![t].res = res,
                                  ![t].idx = 0, ![t].wep = 0]]

\* Step.__call__ line 166: _fmt_results publishes the outputs
PublishPhase(ctx, t, res) ==
  LET d == StepDefs[ctx.T[t].def]
      f == fmt_results(d, res)
      r == add_resources(ctx.S, ctx.P, f.kv)
      c0 == [ctx EXCEPT !.T = [ctx.T EXCEPT ![t].res = res]]
      c1 == [c0 EXCEPT !.S = r.store, !.P = r.provider]
  IN IF res.tag = "raise" THEN Fail(c0, t, "FuncError")
     ELSE IF Len(d.provides) = 0 THEN Return(c0, t, res)
     ELSE IF f.err # "" THEN Fail(c0, t, f.err)
     ELSE IF r.err # "" THEN Fail(c1, t, r.err)
     ELSE Return(c1, t, Tuple([i \in 1..Len(f.kv) |-> f.kv[i][2]]))

\* Step.__call__ lines 161-164: bind the arguments and call the work
\* function, which returns at once or suspends (susp) at an await of its own
FuncPhase(ctx, t, susp, ch) ==
  LET tk == ctx.T[t]
      d  == StepDefs[tk.def]
      c1 == [ctx EXCEPT !.C[tk.def] = @ + 1,
                        !.T = [ctx.T EXCEPT ![t].invoked = TRUE,
                                            ![t].args = tk.wants]]
  IN IF BindError(d) THEN Fail(ctx, t, "TypeError")
     ELSE IF d.awaits /\ susp
          THEN [c1 EXCEPT !.T = [c1.T EXCEPT ![t].pc = "func"]]
          ELSE PublishPhase(c1, t, Body(d, tk.wants, ch))

\* run_for_resources line 108: {r: await self._store[r] for r in resources},
\* from position i on; suspends on the first future that is not done
ReadPhaseNoValue(ctx, t, i, ep, susp, ch) ==
  LET tk == ctx.T[t]
      n  == Len(tk.names)
      j  == FirstIdx(n, {k \in i..n : ~resource_ready(ctx.S, tk.names[k])})
      S1 == IF j <= n THEN Touch(ctx.S, {tk.names[j]}) ELSE ctx.S
      c1 == [ctx EXCEPT !.S = S1]
  IN IF j <= n
     THEN [c1 EXCEPT !.T = [c1.T EXCEPT ![t].pc = "read", ![t].idx = j,
                                        ![t].wep = ep]]
     ELSE IF tk.kind = "step" THEN FuncPhase(c1, t, susp, ch)
     ELSE Return(c1, t, [tag |-> "map", vs |-> << >>])

ReadPhaseNoWait(ctx, t, i, ep, susp, ch) ==
  LET tk == ctx.T[t]
      n  == Len(tk.names)
      got == {tk.names[k] : k \in i..n}
      w  == [m \in Names |-> IF m \in got THEN ctx.S[m].val ELSE tk.wants[m]]
      c1 == [ctx EXCEPT !.S = Touch(ctx.S, got),
                        !.T = [ctx.T EXCEPT ![t].wants = w]]
  IN IF tk.kind = "step" THEN FuncPhase(c1, t, susp, ch)
     ELSE Return(c1, t, [tag |-> "map", vs |-> << >>])

ReadPhase(ctx, t, i, ep, susp, ch) ==
  LET tk == ctx.T[t]
      n  == Len(tk.names)
      j  == FirstIdx(n, {k \in i..n : ~resource_ready(ctx.S, tk.names[k])})
      got == {tk.names[k] : k \in i..(j - 1)}
      w  == [m \in Names |-> IF m \in got THEN ctx.S[m].val ELSE tk.wants[m]]
      S1 == IF j <= n THEN Touch(ctx.S, {tk.names[j]}) ELSE ctx.S
      c1 == [ctx EXCEPT !.S = S1, !.T = [ctx.T EXCEPT ![t].wants = w]]
  IN IF j <= n
     THEN [c1 EXCEPT !.T = [c1.T EXCEPT ![t].pc = "read", ![t].idx = j,
                                        ![t].wep = ep]]
     ELSE IF tk.kind = "step" THEN FuncPhase(c1, t, susp, ch)
     ELSE Return(c1, t, [tag |-> "map", vs |-> << >>])

\* run_for_resources lines 96-102: the providers to run
RunSet(pr, names) ==
  {pr[names[i]] : i \in 1..Len(names)} \ {ENV}

\* run_for_resources lines 96-106: fail on the first name without provider,
\* else start one task per provider and await them all
RunPhaseStartFirst(ctx, t, ep, susp, ch) ==
  LET tk  == ctx.T[t]
      n   == Len(tk.names)
      bad == FirstIdx(n, {k \in 1..n : ctx.P[tk.names[k]] = NoProvider})
      run == SetToSeq(RunSet(ctx.P, tk.names) \ {NoProvider})
      new == [i \in 1..Len(run) |->
                NewTask("step", steps[run[i]],
                        ParamNames(StepDefs[steps[run[i]]]), << >>, t,
                        tk.pre, tk.ep0)]
      c1  == [ctx EXCEPT !.T = [ctx.T EXCEPT ![t].pc = "gather"] \o new]
  IN IF bad <= n THEN Fail(c1, t, "PipelineError")
     ELSE IF Len(run) = 0 THEN ReadPhase(ctx, t, 1, ep, susp, ch)
     ELSE c1

RunPhaseNoDedup(ctx, t, ep, susp, ch) ==
  LET tk  == ctx.T[t]
      n   == Len(tk.names)
      bad == FirstIdx(n, {k \in 1..n : ctx.P[tk.names[k]] = NoProvider})
      run == SelectSeq([i \in 1..n |-> ctx.P[tk.names[i]]],
                       LAMBDA f : f # ENV)
      new == [i \in 1..Len(run) |->
                NewTask("step", steps[run[i]],
                        ParamNames(StepDefs[steps[run[i]]]), << >>, t,
                        tk.pre, tk.ep0)]
  IN IF bad <= n THEN Fail(ctx, t, "PipelineError")
     ELSE IF Len(run) = 0 THEN ReadPhase(ctx, t, 1, ep, susp, ch)
     ELSE [ctx EXCEPT !.T = [ctx.T EXCEPT ![t].pc = "gather"] \o new]

RunPhase(ctx, t, ep, susp, ch) ==
  LET tk  == ctx.T[t]
      n   == Len(tk.names)
      bad == FirstIdx(n, {k \in 1..n : ctx.P[tk.names[k]] = NoProvider})
      run == SetToSeq(RunSet(ctx.P, tk.names))
      new == [i \in 1..Len(run) |->
                NewTask("step", steps[run[i]],
                        ParamNames(StepDefs[steps[run[i]]]), << >>, t,
                        tk.pre, tk.ep0)]
  IN IF bad <= n THEN Fail(ctx, t, "PipelineError")
     ELSE IF Len(run) = 0 THEN ReadPhase(ctx, t, 1, ep, susp, ch)
     ELSE [ctx EXCEPT !.T = [ctx.T EXCEPT ![t].pc = "gather"] \o new]

\* Step.__call__ line 155: any(resource_ready(res) for res in provides)
NeverShortCircuit(d, st) == FALSE

AllShortCircuit(d, st) ==
  /\ Len(d.provides) > 0
  /\ \A i \in 1..Len(d.provides) : resource_ready(st, d.provides[i])

ShortCircuit(d, st) ==
  \E i \in 1..Len(d.provides) : resource_ready(st, d.provides[i])

\* Step.__call__ lines 154-159: inject, short-circuit check, resolve inputs
StepPhaseCheckFirst(ctx, t, ep, susp, ch) ==
  LET tk == ctx.T[t]
      d  == StepDefs[tk.def]
      r  == add_resources(ctx.S, ctx.P, tk.kw)
      c1 == [ctx EXCEPT !.S = r.store, !.P = r.provider]
  IN IF ShortCircuit(d, ctx.S) THEN Return(ctx, t, NoRes)
     ELSE IF r.err # "" THEN Fail(c1, t, r.err)
     ELSE RunPhase(c1, t, ep, susp, ch)

StepPhase(ctx, t, ep, susp, ch) ==
  LET tk == ctx.T[t]
      d  == StepDefs[tk.def]
      n  == Len(d.provides)
      r  == add_resources(ctx.S, ctx.P, tk.kw)
      c1 == [ctx EXCEPT !.S = r.store, !.P = r.provider]
      j  == FirstIdx(n, {i \in 1..n : resource_ready(c1.S, d.provides[i])})
      c2 == [c1 EXCEPT !.S = Touch(c1.S, {d.provides[i] : i \in 1..n} \
                                         {d.provides[i] : i \in (j + 1)..n})]
  IN IF r.err # "" THEN Fail(c1, t, r.err)
     ELSE IF ShortCircuit(d, c1.S) THEN Return(c2, t, NoRes)
     ELSE RunPhase(c2, t, ep, susp, ch)

\* ================================================================ actions
CtxNow == Ctx(tasks, store, provider, calls)

Commit(c) ==
  /\ Len(c.T) <= MaxTasks
  /\ tasks' = c.T
  /\ store' = c.S
  /\ provider' = c.P
  /\ calls' = c.C
  /\ UNCHANGED <<steps, epoch, last>>

\* the event loop runs a task for the first time
Start(t) ==
  /\ tasks[t].pc = "start"
  /\ \E susp \in BOOLEAN, ch \in Choices :
       Commit(CASE tasks[t].kind = "step" -> StepPhase(CtxNow, t, epoch, susp, ch)
                [] tasks[t].kind = "rfr"  -> RunPhase(CtxNow, t, epoch, susp, ch)
                [] tasks[t].kind = "res"  -> ReadPhase(CtxNow, t, 1, epoch, susp, ch))

\* `await asyncio.gather(*runners)` returns: every child is done, or one
\* child has raised
ResumeGather(t) ==
  /\ tasks[t].pc = "gather"
  /\ \/ tasks[t].gerr # ""
     \/ \A c \in Children(tasks, t) : tasks[c].pc = "done"
  /\ \E susp \in BOOLEAN, ch \in Choices :
       Commit(IF tasks[t].gerr # "" THEN Fail(CtxNow, t, tasks[t].gerr)
              ELSE ReadPhase(CtxNow, t, 1, epoch, susp, ch))

\* `await self._store[r]` returns: the future the task waits for is done (a
\* future of a cleared store is never set)
ResumeRead(t) ==
  /\ tasks[t].pc = "read"
  /\ tasks[t].wep = epoch
  /\ resource_ready(store, tasks[t].names[tasks[t].idx])
  /\ \E susp \in BOOLEAN, ch \in Choices :
       Commit(ReadPhase(CtxNow, t, tasks[t].idx, epoch, susp, ch))

\* `await self.func(...)` returns
ResumeFunc(t) ==
  /\ tasks[t].pc = "func"
  /\ \E ch \in Choices :
       Commit(PublishPhase(CtxNow, t,
                           Body(StepDefs[tasks[t].def], tasks[t].args, ch)))

\* --- the environment: synchronous calls and new top-level calls
Roots == {t \in Ids(tasks) : tasks[t].parent = 0}

\* the event loop has a task to run
Runnable(t) ==
  \/ tasks[t].pc \in {"start", "func"}
  \/ /\ tasks[t].pc = "gather"
     /\ \/ tasks[t].gerr # ""
        \/ \A c \in Children(tasks, t) : tasks[c].pc = "done"
  \/ /\ tasks[t].pc = "read"
     /\ tasks[t].wep = epoch
     /\ resource_ready(store, tasks[t].names[tasks[t].idx])

Quiescent == \A t \in Ids(tasks) : ~Runnable(t)

\* @pipe.step(provides=...) applied to a function at setup time: the steps
\* are decorated in the order of their ids, any of them may be left out
Register(id) ==
  /\ steps[StepDefs[id].fname] = 0
  /\ \A j \in AbstractIds : j > id => steps[StepDefs[j].fname] = 0
  /\ tasks = << >>
  /\ LET r == decorator([steps |-> steps, provider |-> provider], id)
     IN /\ steps' = r.steps
        /\ provider' = r.provider
  /\ UNCHANGED <<store, tasks, epoch, calls, last>>

AddResources(kv) ==
  /\ LET r == add_resources(store, provider, kv)
     IN /\ store' = r.store
        /\ provider' = r.provider
        /\ last' = r.err
  /\ UNCHANGED <<steps, tasks, epoch, calls>>

\* Pipeline.clear
Clear ==
  /\ epoch < MaxClears
  /\ Quiescent
  /\ store' = [n \in Names |-> Absent]
  /\ epoch' = epoch + 1
  /\ UNCHANGED <<steps, provider, tasks, calls, last>>

Spawn(tk) ==
  /\ Cardinality(Roots) < MaxRoots
  /\ Len(tasks) < MaxTasks
  /\ Quiescent \/ \A t \in Ids(tasks) : tasks[t].pc = "start"
  /\ tasks' = Append(tasks, tk)
  /\ UNCHANGED <<store, steps, provider, epoch, calls, last>>

\* the values the store holds
Held(st) ==
  [n \in Names |-> IF st[n].state = "done" THEN st[n].val ELSE NoVal]

CallRun(names) ==
  Spawn(NewTask("rfr", 0, names, << >>, 0, Held(store), epoch))

CallStep(id, kw) ==
  /\ steps[StepDefs[id].fname] = id
  /\ Spawn(NewTask("step", id, ParamNames(StepDefs[id]), kw, 0,
                   Held(store), epoch))

CallResource(n) ==
  Spawn(NewTask("res", 0, <<n>>, << >>, 0, Held(store), epoch))

\* --- inputs of the environment
AddInputs == {<<<<"a", 1>>>>, <<<<"b", 1>>>>}
RunInputs == {<<"a">>, <<"b", "c">>, <<"a", "x">>}
StepInputs == {<< >>, <<<<"a", 1>>>>, <<<<"b", 1>>>>}
ResourceInputs == {"a", "c"}

EmptyRegistry ==
  [steps |-> [f \in FNames |-> 0], provider |-> [n \in Names |-> NoProvider]]

InitWith(reg) ==
  /\ store = [n \in Names |-> Absent]
  /\ steps = reg.steps
  /\ provider = reg.provider
  /\ tasks = << >>
  /\ epoch = 0
  /\ calls = [i \in DefIds |-> 0]
  /\ last = ""

Init == InitWith(EmptyRegistry)

Next ==
  \/ \E id \in AbstractIds : Register(id)
  \/ \E kv \in AddInputs : AddResources(kv)
  \/ Clear
  \/ \E ns \in RunInputs : CallRun(ns)
  \/ \E kw \in StepInputs : CallStep(2, kw)
  \/ \E n \in ResourceInputs : CallResource(n)
  \/ \E t \in Ids(tasks) : Start(t)
  \/ \E t \in Ids(tasks) : ResumeGather(t)
  \/ \E t \in Ids(tasks) : ResumeRead(t)
  \/ \E t \in Ids(tasks) : ResumeFunc(t)

Spec == Init /\ [][Next]_vars

\* --- the division example of the documentation: the three steps are
\* registered, base may be supplied, get_division(divisor=d) is called
DivisionRegistry == decorator(decorator(decorator(EmptyRegistry, 4), 5), 6)

InitDivision == InitWith(DivisionRegistry)

DivisionAddInputs == {<<<<"base", 10>>>>, <<<<"result", 7>>>>}

NextDivision ==
  \/ \E kv \in DivisionAddInputs : AddResources(kv)
  \/ Clear
  \/ \E dv \in 1..MaxDivisor : CallStep(6, <<<<"divisor", dv>>>>)
  \/ \E t \in Ids(tasks) : Start(t)
  \/ \E t \in Ids(tasks) : ResumeGather(t)
  \/ \E t \in Ids(tasks) : ResumeRead(t)

SpecDivision == InitDivision /\ [][NextDivision]_vars

\* ================================================================= claims
StepTasks == {t \in Ids(tasks) : tasks[t].kind = "step"}
DefOf(t) == StepDefs[tasks[t].def]
Outputs(d) == {d.provides[i] : i \in 1..Len(d.provides)}
Inputs(d) == {d.params[i].name : i \in 1..Len(d.params)}
Keys(kw) == {kw[i][1] : i \in 1..Len(kw)}
IsDone(st, n) == st[n].state = "done"
\* the event loop runs task t for the first time in this step
Started(t) == tasks[t].pc = "start" /\ tasks'[t].pc # "start"
\* the work function's own failures: it raised, or returned the wrong shape
WorkErrors == {"FuncError", "PipelineError", "TypeError"}

\* C1: within one store, a step that provides a resource and is started by
\* run_for_resources for the call sites demanding that resource has its work
\* function invoked at most once, however many call sites demand it
\* concurrently and even when the work function suspends; only an invocation
\* whose work function failed may be followed by another one.
C1_InvokedOnce ==
  epoch = 0 =>
    \A t1, t2 \in StepTasks :
      (/\ t1 # t2
       /\ tasks[t1].parent # 0
       /\ tasks[t2].parent # 0
       /\ tasks[t1].def = tasks[t2].def
       /\ Outputs(DefOf(t1)) # {}
       /\ tasks[t1].invoked
       /\ tasks[t2].invoked)
      => \/ tasks[t1].err \in WorkErrors
         \/ tasks[t2].err \in WorkErrors

\* C2 (as stated): a step invoked while one of its outputs is Resolved does
\* not call its work function, returns at once with no result and resolves
\* no further resource.
C2_SkipAsStated ==
  [][\A t \in StepTasks :
       (Started(t) /\ \E n \in Outputs(DefOf(t)) : IsDone(store, n))
       => /\ ~tasks'[t].invoked
          /\ calls' = calls
          /\ tasks'[t].pc = "done"
          /\ tasks'[t].res = NoRes
          /\ \A n \in Names : IsDone(store', n) => IsDone(store, n)]_vars

\* C2 (amended): a step invoked while one of its outputs is Resolved never
\* calls its work function and starts no provider; the resources passed
\* alongside are injected first: when one of them is already Resolved the
\* invocation fails with InvalidStateError, otherwise it returns at once with
\* no result, and no resource other than the passed ones becomes Resolved.
C2_Skip ==
  [][\A t \in StepTasks :
       (Started(t) /\ \E n \in Outputs(DefOf(t)) : IsDone(store, n))
       => /\ ~tasks'[t].invoked
          /\ calls' = calls
          /\ Len(tasks') = Len(tasks)
          /\ \A n \in Names :
               IsDone(store', n) /\ ~IsDone(store, n) => n \in Keys(tasks[t].kw)
          /\ IF \E n \in Keys(tasks[t].kw) : IsDone(store, n)
             THEN tasks'[t].pc = "failed" /\ tasks'[t].err = "InvalidStateError"
             ELSE tasks'[t].pc = "done" /\ tasks'[t].res = NoRes]_vars

\* a two-output step was skipped with exactly one of its outputs Resolved
C2_Witness ==
  \E t \in StepTasks :
    /\ tasks[t].pc = "done"
    /\ ~tasks[t].invoked
    /\ tasks[t].kw = << >>
    /\ Len(DefOf(t).provides) = 2
    /\ IsDone(store, DefOf(t).provides[1])
    /\ ~IsDone(store, DefOf(t).provides[2])

\* C3: when a resource is held by the store before a top-level call is made
\* (supplied externally) and the store is not cleared meanwhile, then during
\* that call no step listing the resource among its outputs has its work
\* function invoked, and every work function taking it as an input is passed
\* the supplied value; with base=10 supplied, get_division(divisor=3)
\* returns (10, 3, 1) and base_provider is never invoked.
C3_Supplied ==
  /\ \A t \in StepTasks :
       (tasks[t].invoked /\ tasks[t].ep0 = epoch)
       => /\ \A n \in Outputs(DefOf(t)) : tasks[t].pre[n] = NoVal
          /\ \A n \in Inputs(DefOf(t)) :
               tasks[t].pre[n] # NoVal => tasks[t].args[n] = tasks[t].pre[n]
  /\ \A t \in StepTasks :
       (/\ tasks[t].parent = 0
        /\ tasks[t].def = 6
        /\ tasks[t].kw = <<<<"divisor", 3>>>>
        /\ tasks[t].pre = [EmptyWants EXCEPT !["base"] = 10]
        /\ tasks[t].ep0 = 0
        /\ epoch = 0
        /\ tasks[t].pc = "done")
       => /\ tasks[t].res = Tuple(<<10, 3, 1>>)
          /\ calls[4] = 0

\* base=10 was supplied, get_division(divisor=3) has returned and divide
\* was called with the supplied base
C3_Witness ==
  \E t, u \in StepTasks :
    /\ tasks[t].parent = 0
    /\ tasks[t].def = 6
    /\ tasks[t].kw = <<<<"divisor", 3>>>>
    /\ tasks[t].pre["base"] = 10
    /\ tasks[t].pc = "done"
    /\ tasks[u].parent = t
    /\ tasks[u].def = 5
    /\ tasks[u].invoked
    /\ tasks[u].args["base"] = 10

\* C4: on a fresh pipeline holding the three steps of the example,
\* get_division(divisor=3), called alone and with nothing supplied, does not
\* fail, invokes base_provider's work function at most once, and when it
\* has returned the result is (23, 7, 2) and base_provider was invoked
\* exactly once, whatever the order in which the provider tasks run.
BaseSupplied ==
  \/ store["base"] = Done(10)
  \/ store["result"] = Done(7)
  \/ last # ""

Returned(t) ==
  ~Finished(tasks[t]) /\ Finished(tasks'[t]) /\ tasks'[t].invoked

\* the work function returned as many values as the step declares outputs
RightShape(d, r) ==
  /\ r.tag # "raise"
  /\ \/ Len(d.provides) = 1
     \/ r.tag = "seq" /\ Len(r.vs) = Len(d.provides)

\* C5: a resource is written once per store generation: while the store is
\* not cleared a Resolved resource keeps its value; an external injection of
\* an already Resolved name is rejected with InvalidStateError, and so are
\* the injection of the resources passed to a step and the publication of a
\* step's outputs; a step that publishes resolves outputs that were not
\* Resolved before.
C5_WriteOnce ==
  [][/\ epoch' = epoch =>
          \A n \in Names : IsDone(store, n) => store'[n] = store[n]
     /\ \A kv \in AddInputs :
          (AddResources(kv) /\ \E n \in Keys(kv) : IsDone(store, n))
          => last' = "InvalidStateError"
     /\ \A t \in StepTasks :
          (Started(t) /\ \E n \in Keys(tasks[t].kw) : IsDone(store, n))
          => tasks'[t].pc = "failed" /\ tasks'[t].err = "InvalidStateError"
     /\ \A t \in StepTasks :
          (Returned(t) /\ Outputs(DefOf(t)) # {})
          => IF tasks'[t].pc = "done"
             THEN \A n \in Outputs(DefOf(t)) :
                    ~IsDone(store, n) /\ IsDone(store', n)
             ELSE (/\ RightShape(DefOf(t), tasks'[t].res)
                   /\ \E n \in Outputs(DefOf(t)) : IsDone(store, n))
                  => tasks'[t].err = "InvalidStateError"
    ]_vars

\* an external injection was rejected and so was the publication of a step
\* whose output was Resolved while its work function ran
C5_Witness ==
  /\ last = "InvalidStateError"
  /\ \E t \in StepTasks :
       /\ tasks[t].invoked
       /\ tasks[t].pc = "failed"
       /\ tasks[t].err = "InvalidStateError"
       /\ \E n \in Outputs(DefOf(t)) : IsDone(store, n)

\* the registered steps listing resource n among their outputs
Claimers(n) ==
  {i \in DefIds : steps[StepDefs[i].fname] = i /\ n \in Outputs(StepDefs[i])}

RunTasks == {t \in Ids(tasks) : tasks[t].kind = "rfr"}

\* C6: when run_for_resources has completed a request for which it invoked a
\* producer step, the store is cleared, and the same names are requested
\* again with no failure and no injection in between, then once the event
\* loop has nothing left to run the second request has completed and has
\* invoked a producer step again.
C6_RerunAfterClear ==
  \A t1, t2 \in RunTasks :
    (/\ tasks[t1].parent = 0
     /\ tasks[t2].parent = 0
     /\ tasks[t1].names = tasks[t2].names
     /\ tasks[t1].ep0 = 0
     /\ tasks[t1].pre = EmptyWants
     /\ tasks[t1].pc = "done"
     /\ \E u \in Children(tasks, t1) : tasks[u].invoked /\ tasks[u].pc = "done"
     /\ tasks[t2].ep0 = 1
     /\ tasks[t2].pre = EmptyWants
     /\ epoch = 1
     /\ last = ""
     /\ \A t \in Ids(tasks) : tasks[t].err = ""
     /\ Quiescent)
    => /\ tasks[t2].pc = "done"
       /\ \E u \in Children(tasks, t2) : tasks[u].invoked

\* C7: run_for_resources started with a name that is not Resolved in the
\* store and that no registered step lists among its outputs fails with
\* PipelineError in its first run, without suspending or returning.
C7_MissingProvider ==
  [][\A t \in RunTasks :
       (/\ Started(t)
        /\ \E i \in 1..Len(tasks[t].names) :
             /\ ~IsDone(store, tasks[t].names[i])
             /\ Claimers(tasks[t].names[i]) = {})
       => tasks'[t].pc = "failed" /\ tasks'[t].err = "PipelineError"]_vars

\* the two-output step task t has its work function return a sequence
TwoOutputReturn(t) ==
  /\ Returned(t)
  /\ Len(DefOf(t).provides) = 2
  /\ tasks'[t].res.tag = "seq"

\* C8 (as stated): a two-output step whose work function returns a sequence
\* of length other than 2 fails with PipelineError and resolves none of its
\* outputs; when it returns two values the invocation succeeds and both
\* outputs are Resolved with the values in declared order.
C8_ArityAsStated ==
  [][\A t \in StepTasks :
       TwoOutputReturn(t)
       => IF Len(tasks'[t].res.vs) # 2
          THEN /\ tasks'[t].pc = "failed"
               /\ tasks'[t].err = "PipelineError"
               /\ \A n \in Outputs(DefOf(t)) :
                    IsDone(store', n) => IsDone(store, n)
          ELSE /\ tasks'[t].pc = "done"
               /\ \A i \in 1..2 :
                    store'[DefOf(t).provides[i]] = Done(tasks'[t].res.vs[i])
    ]_vars

\* C8 (amended): as above, but two returned values are published only when
\* neither output is Resolved at the moment the work function returns;
\* otherwise the invocation fails with InvalidStateError and the Resolved
\* output keeps its value.
C8_Arity ==
  [][\A t \in StepTasks :
       TwoOutputReturn(t)
       => IF Len(tasks'[t].res.vs) # 2
          THEN /\ tasks'[t].pc = "failed"
               /\ tasks'[t].err = "PipelineError"
               /\ \A n \in Outputs(DefOf(t)) :
                    IsDone(store', n) => IsDone(store, n)
          ELSE IF \E n \in Outputs(DefOf(t)) : IsDone(store, n)
          THEN /\ tasks'[t].pc = "failed"
               /\ tasks'[t].err = "InvalidStateError"
               /\ \A n \in Outputs(DefOf(t)) :
                    IsDone(store, n) => store'[n] = store[n]
          ELSE /\ tasks'[t].pc = "done"
               /\ \A i \in 1..2 :
                    store'[DefOf(t).provides[i]] = Done(tasks'[t].res.vs[i])
    ]_vars

\* a two-output step returned one value, failed with PipelineError and left
\* both outputs unresolved
C8_Witness ==
  \E t \in StepTasks :
    /\ Len(DefOf(t).provides) = 2
    /\ tasks[t].invoked
    /\ tasks[t].res = Tuple(<<1>>)
    /\ tasks[t].pc = "failed"
    /\ tasks[t].err = "PipelineError"
    /\ \A n \in Outputs(DefOf(t)) : ~IsDone(store, n)

\* task w is suspended on the pending future of resource n
AwaitsResource(T, S, w, n) ==
  /\ T[w].pc = "read"
  /\ T[w].wep = epoch
  /\ T[w].names[T[w].idx] = n
  /\ ~IsDone(S, n)

\* C9: when the work function of the provider step of a resource fails, no
\* task that was awaiting that resource's future is still suspended on it
\* as a pending future afterwards: the failure settles the future.
C9_FailureReachesAwaiters ==
  [][\A p \in StepTasks, w \in Ids(tasks), n \in Names :
       (/\ Returned(p)
        /\ tasks'[p].pc = "failed"
        /\ tasks'[p].err \in WorkErrors
        /\ n \in Outputs(DefOf(p))
        /\ provider[n] = DefOf(p).fname
        /\ AwaitsResource(tasks, store, w, n))
       => ~AwaitsResource(tasks', store', w, n)]_vars

\* C10: once the provider index maps a resource to a step, it maps it to
\* that step in every later state.
C10_ProviderPermanent ==
  [][\A n \in Names :
       provider[n] \in FNames => provider'[n] = provider[n]]_vars

\* every Resolved resource was held when the top-level call of task t was
\* made or was published by a step that ran to completion: nothing was
\* injected while the call was running
NothingInjectedSince(t) ==
  \A n \in Names :
    IsDone(store, n)
    => \/ tasks[t].pre[n] # NoVal
       \/ \E u \in StepTasks :
            /\ tasks[u].invoked
            /\ tasks[u].pc = "done"
            /\ n \in Outputs(DefOf(u))

\* C11: a run_for_resources call made alone on an uncleared store, each of
\* whose names was supplied before the call or has a registered provider,
\* with no work function failing and nothing injected meanwhile, is not left
\* unfinished when the event loop has nothing more to run: it has returned
\* a value for every requested name.
C11_Completes ==
  \A t \in RunTasks :
    (/\ Roots = {t}
     /\ tasks[t].ep0 = 0
     /\ epoch = 0
     /\ \A i \in 1..Len(tasks[t].names) :
          \/ tasks[t].pre[tasks[t].names[i]] # NoVal
          \/ Claimers(tasks[t].names[i]) # {}
     /\ \A u \in Ids(tasks) : tasks[u].err \notin WorkErrors
     /\ NothingInjectedSince(t)
     /\ Quiescent)
    => /\ tasks[t].pc = "done"
       /\ \A i \in 1..Len(tasks[t].names) :
            tasks[t].wants[tasks[t].names[i]] # NoVal

\* C12: when a resource becomes Resolved, every task suspended on its future
\* in the store stays at that read and can be resumed at once; a task
\* resumed from the read of a resource receives the value the store holds
\* for it, so all awaiters of the same resource receive the same value.
C12_SameValue ==
  [][/\ \A n \in Names, w \in Ids(tasks) :
          (/\ IsDone(store', n)
           /\ AwaitsResource(tasks, store, w, n))
          => /\ tasks'[w] = tasks[w]
             /\ epoch' = epoch
     /\ \A w \in Ids(tasks) :
          (tasks[w].pc = "read" /\ tasks'[w] # tasks[w])
          => LET n == tasks[w].names[tasks[w].idx]
             IN /\ IsDone(store, n)
                /\ store'[n] = store[n]
                /\ tasks'[w].wants[n] = store[n].val
                /\ tasks'[w].pc = "done" => tasks'[w].err = ""
    ]_vars

\* two callers were suspended on the same resource when it became Resolved
\* and both are about to be resumed with its value
C12_Witness ==
  \E w1, w2 \in Ids(tasks) :
    /\ w1 # w2
    /\ tasks[w1].pc = "read"
    /\ tasks[w2].pc = "read"
    /\ tasks[w1].wep = epoch
    /\ tasks[w2].wep = epoch
    /\ tasks[w1].names[tasks[w1].idx] = tasks[w2].names[tasks[w2].idx]
    /\ IsDone(store, tasks[w1].names[tasks[w1].idx])

\* C13: at the step in which a step's work function is called, every
\* provider task the invocation started has completed, every declared input
\* of the step is Resolved in the store, and the arguments passed are the
\* stored values of the inputs.
C13_InputsResolved ==
  [][\A t \in StepTasks :
       (~tasks[t].invoked /\ tasks'[t].invoked)
       => /\ \A c \in Children(tasks, t) : tasks[c].pc = "done"
          /\ \A n \in Inputs(DefOf(t)) :
               /\ IsDone(store', n)
               /\ tasks'[t].args[n] = store'[n].val]_vars

\* get_division was called with the stored values after both of its
\* provider tasks completed, divide having been run before base_provider
C13_Witness ==
  \E t, u, v \in StepTasks :
    /\ tasks[t].def = 6
    /\ tasks[t].invoked
    /\ tasks[t].args["base"] = 23
    /\ tasks[t].args["result"] = store["result"].val
    /\ tasks[t].args["modulus"] = store["modulus"].val
    /\ IsDone(store, "modulus")
    /\ tasks[u].parent = t
    /\ tasks[u].def = 4
    /\ ~tasks[u].invoked
    /\ tasks[v].parent = t
    /\ tasks[v].def = 5
    /\ tasks[v].invoked

\* C14: the first run of a step invocation made while one of the step's
\* outputs is Resolved creates no provider task and calls no work function,
\* and does not fail with PipelineError, also when an input of the step has
\* no provider.
C14_SkipBeforeInputs ==
  [][\A t \in StepTasks :
       (Started(t) /\ \E n \in Outputs(DefOf(t)) : IsDone(store, n))
       => /\ Children(tasks', t) = {}
          /\ Len(tasks') = Len(tasks)
          /\ \A i \in DefIds : calls'[i] = calls[i]
          /\ tasks'[t].pc # "gather"
          /\ tasks'[t].err # "PipelineError"]_vars

\* a step was skipped although its input has neither a value nor a provider
C14_Witness ==
  \E t \in StepTasks :
    /\ tasks[t].pc = "done"
    /\ tasks[t].res = NoRes
    /\ ~tasks[t].invoked
    /\ Children(tasks, t) = {}
    /\ Keys(tasks[t].kw) \cap Outputs(DefOf(t)) = {}
    /\ \E n \in Inputs(DefOf(t)) :
         provider[n] = NoProvider /\ ~IsDone(store, n)

\* the value passed for name n in the keyword arguments kw
KwVal(kw, n) == kw[CHOOSE i \in 1..Len(kw) : kw[i][1] = n][2]

\* the first run of step task t starts no provider task for a passed input
\* and, when it calls the work function, passes the given value
PassedInputsSatisfied(t) ==
  \A n \in Keys(tasks[t].kw) \cap Inputs(DefOf(t)) :
    /\ \A c \in Children(tasks', t) : n \notin Outputs(StepDefs[tasks'[c].def])
    /\ tasks'[t].invoked => tasks'[t].args[n] = KwVal(tasks[t].kw, n)

\* C15 (as stated): in the first run of a step invocation, a passed name
\* that is an input of the step is satisfied without running its producer,
\* and a passed name that is an output of the step makes the invocation
\* return at once without calling the work function.
C15_PassedAsStated ==
  [][\A t \in StepTasks :
       Started(t)
       => /\ PassedInputsSatisfied(t)
          /\ Keys(tasks[t].kw) \cap Outputs(DefOf(t)) # {}
             => /\ tasks'[t].pc = "done"
                /\ tasks'[t].res = NoRes
                /\ ~tasks'[t].invoked]_vars

\* C15 (amended): the passed resources are injected first: when one of them
\* is already Resolved the invocation fails with InvalidStateError, starts
\* no task and calls nothing; otherwise each passed name is Resolved with
\* the passed value, a passed input is satisfied without running its
\* producer, and a passed output makes the invocation return at once
\* without calling the work function.
C15_Passed ==
  [][\A t \in StepTasks :
       Started(t)
       => IF \E n \in Keys(tasks[t].kw) : IsDone(store, n)
          THEN /\ tasks'[t].pc = "failed"
               /\ tasks'[t].err = "InvalidStateError"
               /\ ~tasks'[t].invoked
               /\ Len(tasks') = Len(tasks)
          ELSE /\ \A n \in Keys(tasks[t].kw) :
                    /\ store'[n] = Done(KwVal(tasks[t].kw, n))
                    /\ provider'[n] = ENV
               /\ PassedInputsSatisfied(t)
               /\ Keys(tasks[t].kw) \cap Outputs(DefOf(t)) # {}
                  => /\ tasks'[t].pc = "done"
                     /\ tasks'[t].res = NoRes
                     /\ ~tasks'[t].invoked]_vars

\* a step called with its input passed was run with the passed value and
\* started no producer although one is registered, and a call of the same
\* step with an output passed was skipped
C15_Witness ==
  \E t, u \in StepTasks :
    /\ Keys(tasks[t].kw) \cap Inputs(DefOf(t)) # {}
    /\ \E i \in DefIds :
         /\ steps[StepDefs[i].fname] = i
         /\ Keys(tasks[t].kw) \cap Outputs(StepDefs[i]) # {}
    /\ tasks[t].invoked
    /\ \A n \in Keys(tasks[t].kw) : tasks[t].args[n] = KwVal(tasks[t].kw, n)
    /\ Children(tasks, t) = {}
    /\ Keys(tasks[u].kw) \cap Outputs(DefOf(u)) # {}
    /\ tasks[u].pc = "done"
    /\ ~tasks[u].invoked

\* the provider tasks awaited by task t that have failed
FailedChild(T, t) == {c \in Children(T, t) : T[c].pc = "failed"}

\* a task one of whose provider tasks failed has not gone past the gather,
\* has not called its work function, holds an error of a failed provider,
\* and can be resumed to fail with it
Unwinds(T, t) ==
  FailedChild(T, t) # {}
  => /\ T[t].pc \in {"gather", "failed"}
     /\ ~T[t].invoked
     /\ T[t].gerr \in {T[c].err : c \in FailedChild(T, t)}
     /\ T[t].pc = "failed" => T[t].err = T[t].gerr

\* C16: when a provider task started for an input of a step (or of a
\* top-level request) has failed, the awaiting invocation never calls its
\* work function and fails with the provider's error, the failure resolving
\* no resource; the same holds for whoever awaits that invocation, up to the
\* top-level request.
C16_UpstreamFailure ==
  [][/\ \A t \in Ids(tasks') : Unwinds(tasks', t)
     /\ \A t \in Ids(tasks) :
          (/\ FailedChild(tasks, t) # {}
           /\ tasks[t].pc = "gather"
           /\ tasks'[t] # tasks[t])
          => /\ tasks'[t].pc = "failed"
             /\ tasks'[t].err \in {tasks[c].err : c \in FailedChild(tasks, t)}
             /\ store' = store
             /\ calls' = calls
             /\ Len(tasks') = Len(tasks)
     /\ \A t \in Ids(tasks') :
          (/\ FailedChild(tasks', t) # {}
           /\ \A u \in Ids(tasks') :
                tasks'[u].pc \in {"done", "failed", "read"}
                /\ (tasks'[u].pc = "read" =>
                      ~IsDone(store', tasks'[u].names[tasks'[u].idx])))
          => tasks'[t].pc = "failed"
    ]_vars

\* the work function of mk_a failed, mk_bc, which had started it for its
\* input, failed with that error without being invoked, and so did the
\* top-level request that had started mk_bc
C16_Witness ==
  \E r \in RunTasks, s, p \in StepTasks :
    /\ tasks[r].parent = 0
    /\ tasks[s].parent = r
    /\ tasks[p].parent = s
    /\ tasks[p].invoked
    /\ tasks[p].pc = "failed"
    /\ tasks[p].err \in WorkErrors
    /\ tasks[s].pc = "failed"
    /\ tasks[s].err = tasks[p].err
    /\ ~tasks[s].invoked
    /\ \A n \in Outputs(DefOf(s)) : ~IsDone(store, n)
    /\ tasks[r].pc = "failed"
    /\ tasks[r].err = tasks[p].err

\* C17: registering a step leaves every existing provider entry unchanged,
\* whether it names an earlier step or the environment, binds each declared
\* output that has no entry to the registering step, and binds nothing else.
C17_FirstWriterWins ==
  [][\A id \in DefIds :
       (steps[StepDefs[id].fname] = 0 /\ steps'[StepDefs[id].fname] = id)
       => \A n \in Names :
            provider'[n] =
              IF provider[n] # NoProvider THEN provider[n]
              ELSE IF n \in Outputs(StepDefs[id]) THEN StepDefs[id].fname
              ELSE NoProvider]_vars

\* alt, which declares c and a, was registered after mk_a when a had been
\* supplied externally besides: a kept its entry and c was bound to alt
C17_Witness ==
  /\ steps["mk_a"] = 1
  /\ steps["mk_bc"] = 0
  /\ steps["alt"] = 3
  /\ provider["a"] \in {"mk_a", ENV}
  /\ provider["c"] = "alt"
  /\ tasks = << >>

\* C18: the first run of a run_for_resources call one of whose names has no
\* provider entry fails with PipelineError, creates no task, calls no work
\* function and leaves the store and the provider index unchanged, also when
\* other names of the call have providers.
C18_RaisesBeforeStart ==
  [][\A t \in RunTasks :
       (/\ Started(t)
        /\ \E i \in 1..Len(tasks[t].names) :
             provider[tasks[t].names[i]] = NoProvider)
       => /\ tasks'[t].pc = "failed"
          /\ tasks'[t].err = "PipelineError"
          /\ Len(tasks') = Len(tasks)
          /\ calls' = calls
          /\ store' = store
          /\ provider' = provider]_vars

\* run_for_resources('a', 'x') failed although a has a provider step, and
\* started nothing
C18_Witness ==
  \E t \in RunTasks :
    /\ tasks[t].names = <<"a", "x">>
    /\ tasks[t].pc = "failed"
    /\ tasks[t].err = "PipelineError"
    /\ provider["a"] \in FNames
    /\ provider["x"] = NoProvider
    /\ Children(tasks, t) = {}
    /\ store["a"] = Absent
    /\ \A i \in DefIds : calls[i] = 0

\* C19: when a run_for_resources call, made at top level or by a step for its
\* inputs, starts its provider tasks, it starts exactly one task
\* for every step that the provider index gives for one of the requested
\* names, and no other task: none twice, none for the environment.
C19_RunSet ==
  [][\A t \in RunTasks \cup StepTasks :
       (tasks[t].pc = "start" /\ tasks'[t].pc # "start")
       => LET new == Children(tasks', t)
              fns == {provider'[tasks[t].names[i]] :
                        i \in 1..Len(tasks[t].names)} \ {ENV, NoProvider}
          IN \/ tasks'[t].pc = "failed" /\ new = {}
             \/ tasks'[t].kind = "step" /\ tasks'[t].pc = "done" /\ new = {}
                /\ ~tasks'[t].invoked
             \/ /\ \A f \in fns :
                     Cardinality({c \in new :
                                    StepDefs[tasks'[c].def].fname = f}) = 1
                /\ \A c \in new : StepDefs[tasks'[c].def].fname \in fns
                /\ \A c \in new : tasks'[c].pc = "start"]_vars

\* run_for_resources('b', 'c') started one task for mk_bc, the provider of
\* both names
C19_Witness ==
  \E t \in RunTasks :
    /\ tasks[t].names = <<"b", "c">>
    /\ tasks[t].pc = "gather"
    /\ provider["b"] = "mk_bc"
    /\ provider["c"] = "mk_bc"
    /\ Cardinality(Children(tasks, t)) = 1

====
